---- MODULE Spec2Model ----
(***************************************************************************)
(* scaphra - a scattered phrase matcher (src/scaphra/matcher.py).          *)
(*                                                                         *)
(* The model follows one Scaphra object: construction from a phrasemap     *)
(* (__init__), then calls of match(doc), each call scanned one entry of    *)
(* the driving generator at a time, then grouped by _match_group.          *)
(*                                                                         *)
(* A token is a record of the three things the matcher reads of a spaCy    *)
(* token: its literal text, its stem (token._.stem) and its lemma          *)
(* (token.lemma_).  A document, and a phrase after nlp.pipe, is a          *)
(* sequence of tokens.  Token positions and pattern ids are 0-based, as in *)
(* the code; TLA+ sequences are 1-based, so doc[pos + 1] is the token at   *)
(* position pos and patterns[id + 1] the pattern with index id.            *)
(***************************************************************************)
EXTENDS Integers, Sequences, FiniteSets, TLC

VARIABLES
    pc,          \* "new", "ready", "scan", "done", "error"
    phrasemap,   \* the lexicon handed to __init__
    max_space,   \* self.max_space: <<>> is None, <<m>> is the integer m
    patterns,    \* self.patterns, the indexable list
    patternmap,  \* self.patternmap: pattern -> set of labels
    doc,         \* the document of the running match() call
    gen,         \* number of entries of the driving generator consumed
    pat_part,    \* match(): the active bucket, key -> list of Partial
    matches,     \* match(): the set of completed Partials
    groups,      \* the mapping returned by match(): set of [name, spans]
    error,       \* the exception that ended the call, "" if none
    other,       \* the locals of a second match() call on the same matcher
    lis,         \* spanify on its own: the argument
    spans        \* spanify on its own: <<>> or <<the list of ranges it yields>>

vars == <<pc, phrasemap, max_space, patterns, patternmap, doc, gen,
          pat_part, matches, groups, error, other, lis, spans>>

(***************************************************************************)
(* Bounds of the model.                                                    *)
(***************************************************************************)
MaxDocLen == 4
MaxSpace == 3
MaxBetweenLen == 4
MaxPosition == 9
MaxThreadDocLen == 2
MaxOrderDocLen == 3

(***************************************************************************)
(* Input vocabulary.  The stem is computed on the lower-cased text, the    *)
(* lemma keeps the case, so "D" has stem "d" and lemma "D"; "a" has the    *)
(* same string as stem and lemma.  Punctuation and the line break are      *)
(* tokens of their own.                                                    *)
(***************************************************************************)
Token(text, stem, lemma) == [text |-> text, stem |-> stem, lemma |-> lemma]

tA == Token("a", "a", "a")
tD == Token("D", "d", "D")
tOpen == Token("(", "(", "(")
tClose == Token(")", ")", ")")
tComma == Token(",", ",", ",")
tNewline == Token("\n", "\n", "\n")
tX == Token("x", "x", "x")

Vocabulary == {tA, tD, tX, tOpen, tClose, tComma, tNewline}

RECURSIVE SeqsUpTo(_, _)
SeqsUpTo(S, n) ==
    IF n = 0 THEN {<<>>}
    ELSE LET shorter == SeqsUpTo(S, n - 1)
         IN  shorter \cup {Append(s, x) : s \in {t \in shorter : Len(t) = n - 1}, x \in S}

\* documents of match(): words, a filler word and punctuation
Docs == SeqsUpTo(Vocabulary \ {tNewline}, MaxDocLen)

\* documents "a <between> D": every text over the filler word, the
\* punctuation and the line break between the two words of a phrase
BetweenDocs ==
    {<<tA>> \o b \o <<tD>> : b \in SeqsUpTo(Vocabulary \ {tA, tD}, MaxBetweenLen)}

\* Lexicons: ordered label -> list of phrases, as the list of its items.
LexDouble == << <<"double", << <<tA, tD>> >> >> >>
LexTriple == << <<"triple", << <<tA, tD, tA>> >> >> >>
LexShared == << <<"single", << <<tA>> >> >>, <<"double", << <<tA>>, <<tA, tA>> >> >> >>
LexEmpty == << <<"single", << <<>> >> >>, <<"double", << <<tA, tD>> >> >> >>

Lexicons == {LexDouble, LexTriple, LexShared, LexEmpty}

MaxSpaces == {<<>>} \cup {<<m>> : m \in 0..MaxSpace}

Keys == {t.stem : t \in Vocabulary} \cup {t.lemma : t \in Vocabulary}

Range(s) == {s[i] : i \in 1..Len(s)}

(***************************************************************************)
(* __init__: the pattern set and the pattern map.                          *)
(***************************************************************************)
\* raw = [(phrase, key) for key, phrases in phrasemap.items() for phrase in phrases]
Raw(pm) ==
    UNION {{<<pm[i][2][j], pm[i][1]>> : j \in 1..Len(pm[i][2])} : i \in 1..Len(pm)}

Stems(phrase) == [k \in 1..Len(phrase) |-> phrase[k].stem]
Lemmata(phrase) == [k \in 1..Len(phrase) |-> phrase[k].lemma]

\* a compiler that registers the stemmed sequence only
PatternSetStemsOnly(pm) == {Stems(r[1]) : r \in Raw(pm)}

\* for tokens in (stems, lemmata): self.patterns.add(tokens)
PatternSet(pm) == UNION {{Stems(r[1]), Lemmata(r[1])} : r \in Raw(pm)}

\* for tokens in (stems, lemmata): self.patternmap[tokens].add(key)
PatternMap(pm) ==
    [p \in PatternSet(pm) |->
        {r[2] : r \in {q \in Raw(pm) : p \in {Stems(q[1]), Lemmata(q[1])}}}]

\* list(self.patterns): a set of tuples of strings is listed in hash order,
\* which differs between interpreter runs; any order can come out.
Listings(S) ==
    {s \in [1..Cardinality(S) -> S] : \A i, j \in 1..Cardinality(S) : i # j => s[i] # s[j]}

(***************************************************************************)
(* RE_BETWEEN = re.compile("^[^(),]*$|\(.*\)|,.*,", re.MULTILINE)          *)
(* A text is a sequence of characters.  search succeeds when one of the    *)
(* three alternatives matches somewhere in the text.                       *)
(***************************************************************************)
Disallowed == {"(", ")", ","}

\* ^ under MULTILINE: at the start of the text or right after a line break
LineStart(s, i) == i = 1 \/ s[i - 1] = "\n"
\* $ under MULTILINE: at the end of the text or right before a line break
LineEnd(s, i) == i = Len(s) + 1 \/ s[i] = "\n"

\* ^[^(),]*$ matching s[i .. j-1]; the class also matches a line break
MatchesPlain(s) ==
    \E i \in 1..Len(s) + 1 : \E j \in i..Len(s) + 1 :
        /\ LineStart(s, i)
        /\ LineEnd(s, j)
        /\ \A k \in i..j - 1 : s[k] \notin Disallowed

\* open .* close, where . matches anything but a line break
MatchesBounded(s, open, close) ==
    \E i \in 1..Len(s) : \E j \in i + 1..Len(s) :
        /\ s[i] = open
        /\ s[j] = close
        /\ \A k \in i + 1..j - 1 : s[k] # "\n"

\* the expression with "+" for "*" in its first alternative, as the comment
\* above _re_compile_between writes it: the empty text no longer passes
RE_BETWEEN_search_plus(s) ==
    \/ \E i \in 1..Len(s) : \E j \in i + 1..Len(s) + 1 :
           /\ LineStart(s, i)
           /\ LineEnd(s, j)
           /\ \A k \in i..j - 1 : s[k] \notin Disallowed
    \/ MatchesBounded(s, "(", ")")
    \/ MatchesBounded(s, ",", ",")

RE_BETWEEN_search(s) ==
    \/ MatchesPlain(s)
    \/ MatchesBounded(s, "(", ")")
    \/ MatchesBounded(s, ",", ",")

(***************************************************************************)
(* Partial and the helpers of match().                                     *)
(***************************************************************************)
Partial(id, positions) == [id |-> id, positions |-> positions]

Last(s) == s[Len(s)]

\* str(doc[lower + 1 : upper]): the text of the tokens strictly between
\* the two positions; an empty slice when upper <= lower + 1
Between(d, lower, upper) ==
    [k \in 1..(IF upper - lower - 1 > 0 THEN upper - lower - 1 ELSE 0) |->
        d[lower + 1 + k].text]

\* _match_retain with both window comparisons inclusive (">" for ">=")
MatchRetainInclusive(ms, d, pos, part) ==
    IF ms # <<>> /\ pos + Last(part.positions) > ms[1] THEN FALSE
    ELSE IF Len(part.positions) > 1
         THEN LET lower == part.positions[Len(part.positions) - 1]
                  upper == part.positions[Len(part.positions)]
                  between == Between(d, lower, upper)
              IN  IF ms # <<>> /\ upper - lower > ms[1] THEN FALSE
                  ELSE IF "\n" \in Range(between) \/ ~RE_BETWEEN_search(between)
                       THEN FALSE
                       ELSE TRUE
         ELSE TRUE

\* _match_retain(self, doc, pos, part) with self.max_space = ms
MatchRetain(ms, d, pos, part) ==
    IF ms # <<>> /\ pos + Last(part.positions) >= ms[1] THEN FALSE
    ELSE IF Len(part.positions) > 1
         THEN LET lower == part.positions[Len(part.positions) - 1]
                  upper == part.positions[Len(part.positions)]
                  between == Between(d, lower, upper)
              IN  IF ms # <<>> /\ upper - lower >= ms[1] THEN FALSE
                  ELSE IF "\n" \in Range(between) \/ ~RE_BETWEEN_search(between)
                       THEN FALSE
                       ELSE TRUE
         ELSE TRUE

\* a pat_base that keeps one partial per key (assignment instead of append):
\* only the first listed pattern that starts with token
RECURSIVE PatBaseFirstOnly(_, _, _)
PatBaseFirstOnly(pats, token, n) ==
    IF n = 0 THEN <<>>
    ELSE IF PatBaseFirstOnly(pats, token, n - 1) # <<>>
         THEN PatBaseFirstOnly(pats, token, n - 1)
         ELSE IF pats[n][1] = token THEN <<[id |-> n - 1, positions |-> <<>>]>> ELSE <<>>

\* pat_base[token]: the base partials of the patterns that start with token,
\* in index order (ktz.collections.buckets over self.patterns)
RECURSIVE PatBase(_, _, _)
PatBase(pats, token, n) ==
    IF n = 0 THEN <<>>
    ELSE IF pats[n][1] = token
         THEN Append(PatBase(pats, token, n - 1), Partial(n - 1, <<>>))
         ELSE PatBase(pats, token, n - 1)

\* the entry of the driving generator with number g (0-based):
\* position g div 2, stem first and lemma second
GenPos(g) == g \div 2
GenToken(d, g) == IF g % 2 = 0 THEN d[GenPos(g) + 1].stem ELSE d[GenPos(g) + 1].lemma

\* _filter_partials: the extended partials that _match_retain keeps
Extended(partials, pos) ==
    [k \in 1..Len(partials) |->
        Partial(partials[k].id, Append(partials[k].positions, pos))]

Retained(ms, d, pos, parts) ==
    SelectSeq(parts, LAMBDA part : MatchRetain(ms, d, pos, part))

IsComplete(pats, part) == Len(pats[part.id + 1]) = Len(part.positions)

\* the partials _filter_partials adds to matches
FilterMatches(pats, ms, d, pos, partials) ==
    {part \in Range(Retained(ms, d, pos, Extended(partials, pos))) :
        IsComplete(pats, part)}

\* _filter_partials storing an extension under the token it has just matched
FilterPartialsMatchedKey(pats, ms, d, pos, partials, key) ==
    SelectSeq(Retained(ms, d, pos, Extended(partials, pos)),
              LAMBDA part : /\ ~IsComplete(pats, part)
                            /\ pats[part.id + 1][Len(part.positions)] = key)

\* new_part[key] as _filter_partials returns it
FilterPartials(pats, ms, d, pos, partials, key) ==
    SelectSeq(Retained(ms, d, pos, Extended(partials, pos)),
              LAMBDA part : /\ ~IsComplete(pats, part)
                            /\ pats[part.id + 1][Len(part.positions) + 1] = key)

\* a scan without the FILTER AND RESCUE loop: no former partial is kept
RescuedNone(ms, d, pos, parts) == <<>>

\* a rescue loop without the call of _match_retain: every former partial is kept
RescuedAll(ms, d, pos, parts) == parts

\* FILTER AND RESCUE: every former partial under key that _match_retain keeps
Rescued(ms, d, pos, parts) ==
    SelectSeq(parts, LAMBDA part : MatchRetain(ms, d, pos, part))

\* matches after the iteration of the loop for generator entry g
StepMatches(pats, ms, d, g, part, mset) ==
    mset \cup FilterMatches(pats, ms, d, GenPos(g),
                            PatBase(pats, GenToken(d, g), Len(pats)) \o part[GenToken(d, g)])

\* a scan that rescues only the entries it has not looked up at this step
StepPartConsuming(pats, ms, d, g, part) ==
    [key \in Keys |->
        FilterPartials(pats, ms, d, GenPos(g),
                       PatBase(pats, GenToken(d, g), Len(pats)) \o part[GenToken(d, g)],
                       key)
        \o (IF key = GenToken(d, g) THEN <<>> ELSE Rescued(ms, d, GenPos(g), part[key]))]

\* pat_part after the iteration of the loop for generator entry g
StepPart(pats, ms, d, g, part) ==
    [key \in Keys |->
        FilterPartials(pats, ms, d, GenPos(g),
                       PatBase(pats, GenToken(d, g), Len(pats)) \o part[GenToken(d, g)],
                       key)
        \o Rescued(ms, d, GenPos(g), part[key])]

\* the whole loop, from generator entry g on: the final set of matches
RECURSIVE ScanFrom(_, _, _, _, _, _)
ScanFrom(pats, ms, d, g, part, mset) ==
    IF g = 2 * Len(d) THEN mset
    ELSE ScanFrom(pats, ms, d, g + 1,
                  StepPart(pats, ms, d, g, part),
                  StepMatches(pats, ms, d, g, part, mset))

(***************************************************************************)
(* spanify and _match_group.                                               *)
(***************************************************************************)
\* end of the contiguous run of lis that starts at index i (1-based)
RECURSIVE RunEnd(_, _)
RunEnd(l, j) ==
    IF j + 1 <= Len(l) /\ l[j + 1] - l[j] = 1 THEN RunEnd(l, j + 1) ELSE j

RECURSIVE SpanifyFrom(_, _)
SpanifyFrom(l, i) ==
    IF i > Len(l) THEN <<>>
    ELSE LET j == RunEnd(l, i)
         IN  <<<<l[i], l[j] + 1>>>> \o SpanifyFrom(l, j + 1)

\* spanify yielding the last position of a run as its end (no "+ 1")
RECURSIVE SpanifyClosedFrom(_, _)
SpanifyClosedFrom(l, i) ==
    IF i > Len(l) THEN <<>>
    ELSE LET j == RunEnd(l, i)
         IN  <<<<l[i], l[j]>>>> \o SpanifyClosedFrom(l, j + 1)

spanifyClosed(l) == SpanifyClosedFrom(l, 1)

spanify(l) == SpanifyFrom(l, 1)

\* str(n) as the sequence of its decimal digits
Digit(n) == CASE n = 0 -> "0" [] n = 1 -> "1" [] n = 2 -> "2" [] n = 3 -> "3"
              [] n = 4 -> "4" [] n = 5 -> "5" [] n = 6 -> "6" [] n = 7 -> "7"
              [] n = 8 -> "8" [] n = 9 -> "9"

RECURSIVE Str(_)
Str(n) == IF n < 10 THEN <<Digit(n)>> ELSE Append(Str(n \div 10), Digit(n % 10))

\* ".".join(map(str, positions))
RECURSIVE PosRep(_)
PosRep(positions) ==
    IF Len(positions) = 0 THEN <<>>
    ELSE IF Len(positions) = 1 THEN Str(positions[1])
    ELSE PosRep(SubSeq(positions, 1, Len(positions) - 1)) \o <<".">> \o Str(Last(positions))

\* a name without the label
MatchNameNoLabel(key, positions) == <<"match:">> \o PosRep(positions)

\* f"match:{key}:{posrep}"
MatchName(key, positions) == <<"match:", key, ":">> \o PosRep(positions)

\* the SpanGroup of one completed match under one label
SpanGroup(key, positions) ==
    [name |-> MatchName(key, positions),
     spans |-> [k \in 1..Len(spanify(positions)) |->
                  [start |-> spanify(positions)[k][1],
                   end |-> spanify(positions)[k][2],
                   label |-> key]]]

\* a lookup by the first token of the pattern instead of the whole pattern
LookedUpFirstToken(pats, part) == <<pats[part.id + 1][1]>>

\* self.patterns[part.id], the key _match_group looks up in self.patternmap
LookedUp(pats, part) == pats[part.id + 1]

\* self.patternmap is a defaultdict(set): looking a key up gives the empty
\* set, and inserts the key, when it is missing
DefaultGet(pmap, k) == IF k \in DOMAIN pmap THEN pmap[k] ELSE {}

DefaultDictAfter(pmap, keys) ==
    [k \in (DOMAIN pmap) \cup keys |-> DefaultGet(pmap, k)]

\* _match_group: groups[name] = group, one entry per name
MatchGroup(pats, pmap, ms) ==
    {SpanGroup(key, part.positions) : <<part, key>> \in
        UNION {{<<p, k>> : k \in DefaultGet(pmap, LookedUp(pats, p))} : p \in ms}}

\* match(doc) as one function: the mapping it returns
MatchResult(pats, pmap, ms, d) ==
    MatchGroup(pats, pmap, ScanFrom(pats, ms, d, 0, [k \in Keys |-> <<>>], {}))

(***************************************************************************)
(* The state machine.                                                      *)
(***************************************************************************)
EmptyBucket == [k \in Keys |-> <<>>]

\* the locals of a call that is not running
IdleCall ==
    [pc |-> "ready", doc |-> <<>>, gen |-> 0, pat_part |-> EmptyBucket,
     matches |-> {}, groups |-> {}, error |-> ""]

Init ==
    /\ pc = "new"
    /\ phrasemap \in Lexicons
    /\ max_space \in MaxSpaces
    /\ patterns = <<>>
    /\ patternmap = <<>>
    /\ doc = <<>>
    /\ gen = 0
    /\ pat_part = EmptyBucket
    /\ matches = {}
    /\ groups = {}
    /\ error = ""
    /\ other = IdleCall
    /\ lis = <<>>
    /\ spans = <<>>

\* Scaphra.__init__ (augment is None, as Scaphra.create constructs it)
Construct ==
    /\ pc = "new"
    /\ patterns' \in Listings(PatternSet(phrasemap))
    /\ patternmap' = PatternMap(phrasemap)
    /\ pc' = "ready"
    /\ UNCHANGED <<phrasemap, max_space, doc, gen, pat_part, matches, groups, error>>
    /\ UNCHANGED <<other, lis, spans>>

\* a match() whose bucket and match set are attributes of the matcher, left
\* as the other running call has them
MatchBeginOnShared(documents) ==
    /\ pc = "ready"
    /\ \E d \in documents :
        /\ doc' = d
        /\ IF \E i \in 1..Len(patterns) : Len(patterns[i]) = 0
           THEN pc' = "error" /\ error' = "IndexError"
           ELSE pc' = "scan" /\ error' = ""
    /\ gen' = 0
    /\ pat_part' = other.pat_part
    /\ matches' = other.matches
    /\ groups' = {}
    /\ UNCHANGED <<phrasemap, max_space, patterns, patternmap, other, lis, spans>>

\* match(): building pat_base evaluates pattern[0] of every pattern
MatchBeginOn(documents) ==
    /\ pc = "ready"
    /\ \E d \in documents :
        /\ doc' = d
        /\ IF \E i \in 1..Len(patterns) : Len(patterns[i]) = 0
           THEN pc' = "error" /\ error' = "IndexError"
           ELSE pc' = "scan" /\ error' = ""
    /\ gen' = 0
    /\ pat_part' = EmptyBucket
    /\ matches' = {}
    /\ groups' = {}
    /\ UNCHANGED <<phrasemap, max_space, patterns, patternmap, other, lis, spans>>

MatchBegin == MatchBeginOn(Docs)

\* one iteration of "for pos, token in gen"
ScanStep ==
    /\ pc = "scan"
    /\ gen < 2 * Len(doc)
    /\ matches' = StepMatches(patterns, max_space, doc, gen, pat_part, matches)
    /\ pat_part' = StepPart(patterns, max_space, doc, gen, pat_part)
    /\ gen' = gen + 1
    /\ UNCHANGED <<pc, phrasemap, max_space, patterns, patternmap, doc, groups, error>>
    /\ UNCHANGED <<other, lis, spans>>

\* the generator is exhausted: groups = self._match_group(doc, matches)
MatchEnd ==
    /\ pc = "scan"
    /\ gen = 2 * Len(doc)
    /\ groups' = MatchGroup(patterns, patternmap, matches)
    /\ patternmap' =
          DefaultDictAfter(patternmap, {LookedUp(patterns, part) : part \in matches})
    /\ pc' = "done"
    /\ UNCHANGED <<phrasemap, max_space, patterns, doc, gen, pat_part, matches, error>>
    /\ UNCHANGED <<other, lis, spans>>

\* the call has returned or raised; its locals are gone and the matcher is
\* ready for the next call
Return ==
    /\ pc \in {"done", "error"}
    /\ pc' = "ready"
    /\ doc' = <<>>
    /\ gen' = 0
    /\ pat_part' = EmptyBucket
    /\ matches' = {}
    /\ groups' = {}
    /\ error' = ""
    /\ UNCHANGED <<phrasemap, max_space, patterns, patternmap, other, lis, spans>>

Next == Construct \/ MatchBegin \/ ScanStep \/ MatchEnd \/ Return

Spec == Init /\ [][Next]_vars

(***************************************************************************)
(* The between-text filter on its own: the matcher of the phrase "a D",    *)
(* max_space unset, run on the documents "a <between> D".                   *)
(***************************************************************************)
InitBetween ==
    /\ Init
    /\ phrasemap = LexDouble
    /\ max_space = <<>>

MatchBeginBetween == MatchBeginOn(BetweenDocs)

NextBetween == Construct \/ MatchBeginBetween \/ ScanStep \/ MatchEnd \/ Return

SpecBetween == InitBetween /\ [][NextBetween]_vars

(***************************************************************************)
(* spanify on its own, applied to every strictly increasing list of        *)
(* positions up to MaxPosition.                                            *)
(***************************************************************************)
RECURSIVE Sorted(_)
Sorted(S) ==
    IF S = {} THEN <<>>
    ELSE LET m == CHOOSE x \in S : \A y \in S : x >= y
         IN  Append(Sorted(S \ {m}), m)

PositionLists == {Sorted(S) : S \in SUBSET (0..MaxPosition)}

InitSpanify ==
    /\ Init
    /\ phrasemap = LexDouble
    /\ max_space = <<>>

ChooseList ==
    /\ pc = "new"
    /\ spans = <<>>
    /\ lis = <<>>
    /\ lis' \in PositionLists \ {<<>>}
    /\ UNCHANGED <<pc, phrasemap, max_space, patterns, patternmap, doc, gen,
                   pat_part, matches, groups, error, other, spans>>

Spanify ==
    /\ pc = "new"
    /\ spans = <<>>
    /\ spans' = <<spanify(lis)>>
    /\ UNCHANGED <<pc, phrasemap, max_space, patterns, patternmap, doc, gen,
                   pat_part, matches, groups, error, other, lis>>

NextSpanify == ChooseList \/ Spanify

SpecSpanify == InitSpanify /\ [][NextSpanify]_vars

(***************************************************************************)
(* Two match() calls on one matcher, their steps interleaved.  The first   *)
(* call runs in pc, doc, gen, pat_part, matches, groups, error; the second *)
(* in the fields of other.                                                 *)
(***************************************************************************)
ThreadDocs == SeqsUpTo({tA, tD, tX}, MaxThreadDocLen)

InitThreads ==
    /\ Init
    /\ phrasemap \in {LexDouble, LexShared}
    /\ max_space \in {<<>>, <<MaxSpace>>}

MatchBeginThread == MatchBeginOn(ThreadDocs)

OtherBegin ==
    /\ pc # "new"
    /\ other.pc = "ready"
    /\ \E d \in ThreadDocs :
          other' = [IdleCall EXCEPT
                      !.doc = d,
                      !.pc = IF \E i \in 1..Len(patterns) : Len(patterns[i]) = 0
                             THEN "error" ELSE "scan",
                      !.error = IF \E i \in 1..Len(patterns) : Len(patterns[i]) = 0
                                THEN "IndexError" ELSE ""]
    /\ UNCHANGED <<pc, phrasemap, max_space, patterns, patternmap, doc, gen,
                   pat_part, matches, groups, error, lis, spans>>

OtherScanStep ==
    /\ other.pc = "scan"
    /\ other.gen < 2 * Len(other.doc)
    /\ other' = [other EXCEPT
                   !.matches = StepMatches(patterns, max_space, other.doc, other.gen,
                                           other.pat_part, other.matches),
                   !.pat_part = StepPart(patterns, max_space, other.doc, other.gen,
                                         other.pat_part),
                   !.gen = other.gen + 1]
    /\ UNCHANGED <<pc, phrasemap, max_space, patterns, patternmap, doc, gen,
                   pat_part, matches, groups, error, lis, spans>>

OtherMatchEnd ==
    /\ other.pc = "scan"
    /\ other.gen = 2 * Len(other.doc)
    /\ other' = [other EXCEPT
                   !.groups = MatchGroup(patterns, patternmap, other.matches),
                   !.pc = "done"]
    /\ patternmap' =
          DefaultDictAfter(patternmap, {LookedUp(patterns, part) : part \in other.matches})
    /\ UNCHANGED <<pc, phrasemap, max_space, patterns, doc, gen,
                   pat_part, matches, groups, error, lis, spans>>

OtherReturn ==
    /\ other.pc \in {"done", "error"}
    /\ other' = IdleCall
    /\ UNCHANGED <<pc, phrasemap, max_space, patterns, patternmap, doc, gen,
                   pat_part, matches, groups, error, lis, spans>>

NextThreads ==
    \/ Construct \/ MatchBeginThread \/ ScanStep \/ MatchEnd \/ Return
    \/ OtherBegin \/ OtherScanStep \/ OtherMatchEnd \/ OtherReturn

SpecThreads == InitThreads /\ [][NextThreads]_vars

(***************************************************************************)
(* The matcher under every listing order of its pattern set, run on the    *)
(* documents of up to MaxOrderDocLen tokens over two words, the filler     *)
(* word and the comma.                                                     *)
(***************************************************************************)
OrderDocs == SeqsUpTo({tA, tD, tX, tComma}, MaxOrderDocLen)

MatchBeginOrder == MatchBeginOn(OrderDocs)

NextOrder == Construct \/ MatchBeginOrder \/ ScanStep \/ MatchEnd \/ Return

SpecOrder == Init /\ [][NextOrder]_vars

(***************************************************************************)
(* Vocabulary of the claims.                                               *)
(***************************************************************************)
Positions(d) == 0..Len(d) - 1

PatternIds == 0..Len(patterns) - 1

\* the token at position pos has the string t as its stem or as its lemma
Shows(d, pos, t) == d[pos + 1].stem = t \/ d[pos + 1].lemma = t

\* the strictly increasing sequences of k positions of a document of n tokens
Increasing(n, k) ==
    {s \in [1..k -> 0..n - 1] : \A i \in 1..k - 1 : s[i] < s[i + 1]}

\* positions is an occurrence of pattern in d
Embeds(d, pattern, positions) ==
    \A i \in 1..Len(pattern) : Shows(d, positions[i], pattern[i])

Count(s, c) == Cardinality({i \in 1..Len(s) : s[i] = c})
NoLineBreak(s) == \A i \in 1..Len(s) : s[i] # "\n"
NoneDisallowed(s) == \A i \in 1..Len(s) : s[i] \notin Disallowed

\* the between-text passes the structural filter of _match_retain
PassesFilter(s) == NoLineBreak(s) /\ RE_BETWEEN_search(s)

\* a closing parenthesis with no opening one left to match it, or an opening
\* parenthesis with no closing one left to match it
UnmatchedClose(s) ==
    \E i \in 1..Len(s) :
        Count(SubSeq(s, 1, i), ")") > Count(SubSeq(s, 1, i), "(")
UnmatchedOpen(s) ==
    \E i \in 1..Len(s) :
        Count(SubSeq(s, i, Len(s)), "(") > Count(SubSeq(s, i, Len(s)), ")")

HasGroup(key, positions) == \E g \in groups : g.name = MatchName(key, positions)

\* in SpecBetween: the text between the two words of the document
BetweenText == Between(doc, 0, Len(doc) - 1)
\* in SpecBetween: the occurrence "a ... D" is matched by every pattern / by none
EndsMatched == \A id \in PatternIds : Partial(id, <<0, Len(doc) - 1>>) \in matches
EndsRejected == \A id \in PatternIds : Partial(id, <<0, Len(doc) - 1>>) \notin matches

(***************************************************************************)
(* C1.  With max_space = m, a two-token pattern whose tokens stand at      *)
(* p < q with q - p < m, and with a between-text free of line breaks and   *)
(* of "(", ")", ",", is matched at (p, q) for the pattern's labels.        *)
(* The code compares pos + positions[-1], not a distance, with max_space.  *)
(***************************************************************************)
C1_CloseTokensMatched ==
    (pc = "done" /\ max_space # <<>>) =>
        \A id \in PatternIds : \A p, q \in Positions(doc) :
            ( /\ Len(patterns[id + 1]) = 2
              /\ p < q
              /\ q - p < max_space[1]
              /\ Embeds(doc, patterns[id + 1], <<p, q>>)
              /\ NoLineBreak(Between(doc, p, q))
              /\ NoneDisallowed(Between(doc, p, q)) )
            => /\ Partial(id, <<p, q>>) \in matches
               /\ \A key \in patternmap[patterns[id + 1]] : HasGroup(key, <<p, q>>)

(***************************************************************************)
(* C2.  With max_space = m, every completed match has each pair of         *)
(* consecutive positions less than m apart, and its first and last         *)
(* position less than m apart.                                             *)
(***************************************************************************)
C2_MatchesWithinWindow ==
    (pc \in {"scan", "done"} /\ max_space # <<>>) =>
        \A part \in matches :
            /\ \A i \in 1..Len(part.positions) - 1 :
                  part.positions[i + 1] - part.positions[i] < max_space[1]
            /\ Last(part.positions) - part.positions[1] < max_space[1]

C2_Witness ==
    /\ pc = "done"
    /\ max_space # <<>>
    /\ \E part \in matches :
          /\ Len(part.positions) = 2
          /\ part.positions[1] < part.positions[2]

(***************************************************************************)
(* C3.  A single-token pattern under label L gives, at every position      *)
(* whose stem or lemma is its token, exactly one group "match:L:<pos>"     *)
(* with the one span (pos, pos + 1), max_space unset or positive.          *)
(***************************************************************************)
C3_SingleTokenEveryPosition ==
    (pc = "done" /\ (max_space = <<>> \/ max_space[1] > 0)) =>
        \A id \in PatternIds : \A pos \in Positions(doc) :
            (Len(patterns[id + 1]) = 1 /\ Embeds(doc, patterns[id + 1], <<pos>>))
            => \A key \in patternmap[patterns[id + 1]] :
                  {g \in groups : g.name = MatchName(key, <<pos>>)}
                  = {[name |-> MatchName(key, <<pos>>),
                      spans |-> <<[start |-> pos, end |-> pos + 1, label |-> key]>>]}

(***************************************************************************)
(* C4.  With max_space unset, every occurrence of a pattern at strictly    *)
(* increasing positions whose consecutive between-texts pass the           *)
(* structural filter is among the completed matches.                       *)
(***************************************************************************)
C4_EveryOccurrenceMatched ==
    (pc = "done" /\ max_space = <<>>) =>
        \A id \in PatternIds :
            \A positions \in Increasing(Len(doc), Len(patterns[id + 1])) :
                ( /\ Embeds(doc, patterns[id + 1], positions)
                  /\ \A i \in 1..Len(positions) - 1 :
                        PassesFilter(Between(doc, positions[i], positions[i + 1])) )
                => Partial(id, positions) \in matches

\* a three-token pattern matched across an intervening token
C4_Witness ==
    /\ pc = "done"
    /\ max_space = <<>>
    /\ \E part \in matches :
          /\ Len(part.positions) = 3
          /\ part.positions[1] < part.positions[2]
          /\ part.positions[2] + 1 < part.positions[3]

(***************************************************************************)
(* C5.  An extension is rejected whenever the between-text holds an        *)
(* unbalanced parenthesis, whatever else it holds.                          *)
(* The expression is searched, not anchored: a balanced pair or two commas *)
(* anywhere in the text let it pass.                                       *)
(***************************************************************************)
C5_UnbalancedRejected ==
    (pc = "done" /\ (UnmatchedOpen(BetweenText) \/ UnmatchedClose(BetweenText)))
        => EndsRejected

C7_NonPositiveRejected ==
    (pc # "new") => (max_space = <<>> \/ max_space[1] > 0)

(***************************************************************************)
(* C8.  After construction every pattern of the table has length >= 1.     *)
(* The empty phrase compiles to the empty tuple, which is registered.      *)
(***************************************************************************)
C8_NoEmptyPattern ==
    (pc # "new") => \A i \in 1..Len(patterns) : Len(patterns[i]) >= 1

(***************************************************************************)
(* C9.  match() on a document with zero tokens returns the empty mapping   *)
(* and raises no error.                                                    *)
(***************************************************************************)
C9_EmptyDocEmptyResult ==
    (pc \in {"done", "error"} /\ Len(doc) = 0) =>
        (pc = "done" /\ error = "" /\ groups = {})

(***************************************************************************)
(* C10.  After construction the stemmed and the lemmatized sequence of     *)
(* every phrase of label L are in the table and map to L; the table has no *)
(* duplicates and its entries are the keys of the map.                     *)
(***************************************************************************)
C10_BothFormsRegistered ==
    (pc # "new") =>
        /\ \A i \in 1..Len(phrasemap) : \A j \in 1..Len(phrasemap[i][2]) :
              \A tokens \in {Stems(phrasemap[i][2][j]), Lemmata(phrasemap[i][2][j])} :
                  /\ tokens \in Range(patterns)
                  /\ tokens \in DOMAIN patternmap
                  /\ phrasemap[i][1] \in patternmap[tokens]
        /\ \A i, j \in 1..Len(patterns) : i # j => patterns[i] # patterns[j]
        /\ Range(patterns) = DOMAIN patternmap

\* one sequence that phrases of two labels produce, mapped to both
C10_Witness ==
    /\ pc = "ready"
    /\ \E p \in DOMAIN patternmap : Cardinality(patternmap[p]) = 2
    /\ \E p, q \in Range(patterns) : p # q

(***************************************************************************)
(* Vocabulary of the claims on the scan.                                   *)
(***************************************************************************)
StrictlyIncreasing(positions) ==
    \A i \in 1..Len(positions) - 1 : positions[i] < positions[i + 1]

\* a scan step is about to run
Scanning == pc = "scan" /\ gen < 2 * Len(doc)

LabelPositions ==
    UNION {{<<key, part.positions>> : key \in patternmap[patterns[part.id + 1]]} :
             part \in matches}

C12_OneGroupPerLabelPositions ==
    (pc = "done") =>
        /\ \A pr \in LabelPositions :
              Cardinality({g \in groups : g.name = MatchName(pr[1], pr[2])}) = 1
        /\ \A g \in groups :
              \E pr \in LabelPositions : g.name = MatchName(pr[1], pr[2])
        /\ \A g, h \in groups : g.name = h.name => g = h
        /\ \A pr, qr \in LabelPositions :
              pr # qr => MatchName(pr[1], pr[2]) # MatchName(qr[1], qr[2])
        /\ Cardinality(groups) = Cardinality(LabelPositions)
        /\ MatchGroup(patterns, patternmap, matches) = groups

\* the stem form and the lemma form of one phrase matched at the same positions
C12_Witness ==
    /\ pc = "done"
    /\ \E p, q \in matches : p.id # q.id /\ p.positions = q.positions
    /\ Cardinality(groups) < Cardinality(matches)

(***************************************************************************)
(* C13.  The mapping match() returns depends on the lexicon, max_space and *)
(* the document only: a run under any other listing order of the pattern   *)
(* set returns the same mapping.                                           *)
(***************************************************************************)
C13_OrderIndependent ==
    (pc = "done") =>
        \A listing \in Listings(PatternSet(phrasemap)) :
            MatchResult(listing, PatternMap(phrasemap), max_space, doc) = groups

C13_Witness ==
    /\ pc = "done"
    /\ groups # {}
    /\ Len(patterns) = 2
    /\ patterns[1] = <<"a", "a">>

(***************************************************************************)
(* C14.  Two match() calls on one matcher, interleaved step by step, each  *)
(* return what the call returns when it runs alone.                        *)
(***************************************************************************)
C14_CallsIsolated ==
    /\ (pc = "done") =>
          groups = MatchResult(patterns, PatternMap(phrasemap), max_space, doc)
    /\ (other.pc = "done") =>
          other.groups = MatchResult(patterns, PatternMap(phrasemap), max_space, other.doc)

\* the first call has returned matches while the second is in the middle of
\* its scan of another document, holding partials
C14_Witness ==
    /\ pc = "done"
    /\ groups # {}
    /\ other.pc = "scan"
    /\ other.doc # doc
    /\ other.gen > 0
    /\ other.gen < 2 * Len(other.doc)
    /\ \E key \in Keys : other.pat_part[key] # <<>>

(***************************************************************************)
(* C15.  The positions of every partial of the active bucket and of every  *)
(* completed match are strictly increasing: no match holds a position      *)
(* twice.                                                                  *)
(* The stem entry and the lemma entry of one token both run against the    *)
(* same bucket: a partial started or extended by the stem entry is         *)
(* extended by the lemma entry at the same position.                       *)
(***************************************************************************)
C15_PositionsIncreasing ==
    (pc \in {"scan", "done"}) =>
        /\ \A part \in matches : StrictlyIncreasing(part.positions)
        /\ \A key \in Keys : \A part \in Range(pat_part[key]) :
              StrictlyIncreasing(part.positions)

(***************************************************************************)
(* C16.  A completed match has as many positions as its pattern has        *)
(* tokens and the token at positions[i] shows pattern[i]; a partial of the *)
(* active bucket has fewer positions than its pattern and is stored under  *)
(* pattern[len(positions)].                                                *)
(***************************************************************************)
C16_MatchesSound ==
    (pc \in {"scan", "done"}) =>
        /\ \A part \in matches :
              /\ Len(part.positions) = Len(patterns[part.id + 1])
              /\ Embeds(doc, patterns[part.id + 1], part.positions)
        /\ \A key \in Keys : \A part \in Range(pat_part[key]) :
              /\ Len(part.positions) >= 1
              /\ Len(part.positions) < Len(patterns[part.id + 1])
              /\ patterns[part.id + 1][Len(part.positions) + 1] = key

C16_Witness ==
    /\ pc = "scan"
    /\ matches # {}
    /\ \E key \in Keys : \E part \in Range(pat_part[key]) : Len(part.positions) = 2

(***************************************************************************)
(* C17.  In one scan step an entry that is looked up (its key equals the   *)
(* current token) is consumed: the next active bucket never holds the      *)
(* un-extended entry itself.                                               *)
(* Stated for the entries of earlier positions, which no extension and no  *)
(* base partial of this step can equal.                                    *)
(***************************************************************************)
C17_LookedUpConsumed ==
    [][Scanning =>
          \A key \in Keys : \A part \in Range(pat_part[key]) :
              ( /\ Last(part.positions) < GenPos(gen)
                /\ part \in Range(pat_part'[key]) )
              => key # GenToken(doc, gen)]_vars

(***************************************************************************)
(* C17, amended.  In one scan step every entry of the active bucket that   *)
(* _match_retain keeps at the current position is carried forward          *)
(* unchanged under its key, whether or not it is looked up, and no other   *)
(* entry is; an entry that is looked up also puts its extension into the   *)
(* next bucket if that is retained and incomplete, into the matches if it  *)
(* is retained and complete.                                               *)
(***************************************************************************)
C17_RetainedCarriedForward ==
    [][Scanning =>
          LET pos == GenPos(gen)
              token == GenToken(doc, gen)
          IN  /\ \A key \in Keys : \A part \in Range(pat_part[key]) :
                    (part \in Range(pat_part'[key]))
                    <=> MatchRetain(max_space, doc, pos, part)
              /\ \A part \in Range(pat_part[token]) :
                    LET ext == Partial(part.id, Append(part.positions, pos))
                        pattern == patterns[part.id + 1]
                    IN  MatchRetain(max_space, doc, pos, ext) =>
                            IF Len(pattern) = Len(ext.positions)
                            THEN ext \in matches'
                            ELSE ext \in Range(pat_part'[pattern[Len(ext.positions) + 1]])
       ]_vars

\* after a step, the bucket of the token just looked up still holds an entry
\* of an earlier position
C17_Witness ==
    /\ pc = "scan"
    /\ gen > 0
    /\ \E part \in Range(pat_part[GenToken(doc, gen - 1)]) :
          Last(part.positions) < GenPos(gen - 1)

(***************************************************************************)
(* C18.  With max_space = m, after the scan step of position pos every     *)
(* partial of the active bucket has pos - positions[0] < m.                *)
(***************************************************************************)
C18_BucketWithinWindow ==
    (pc = "scan" /\ gen > 0 /\ max_space # <<>>) =>
        \A key \in Keys : \A part \in Range(pat_part[key]) :
            GenPos(gen - 1) - part.positions[1] < max_space[1]

\* a partial waiting for its next token, past the position it started at
C18_Witness ==
    /\ pc = "scan"
    /\ gen > 0
    /\ max_space # <<>>
    /\ \E key \in Keys : \E part \in Range(pat_part[key]) :
          part.positions[1] < GenPos(gen - 1)

(***************************************************************************)
(* C19.  No step of match() or __call__ changes the pattern table, the     *)
(* pattern map or max_space of the constructed matcher.                    *)
(***************************************************************************)
C19_CompiledStateUnchanged ==
    [][(pc # "new") => UNCHANGED <<patterns, patternmap, max_space>>]_vars

\* _match_group has looked the patterns of its matches up in the pattern map
C19_Witness ==
    /\ pc = "done"
    /\ groups # {}
    /\ patternmap = PatternMap(phrasemap)
    /\ Range(patterns) = PatternSet(phrasemap)

(***************************************************************************)
(* C20.  After every scan step the active bucket holds each distinct       *)
(* partial (same pattern id, same positions) at most once.                 *)
(* For a token whose stem equals its lemma both generator entries start    *)
(* the same base partial, and the first one is rescued.                    *)
(***************************************************************************)
C20_NoDuplicatePartials ==
    (pc = "scan") =>
        \A key \in Keys : \A i, j \in 1..Len(pat_part[key]) :
            i # j => pat_part[key][i] # pat_part[key][j]

====
